---- MODULE Spec2Model ----
(***************************************************************************)
(* A state-machine model of the MoSPI scraper / RAG pipeline:              *)
(*   scraper/crawl.py   crawl frontier, listing parser, file download      *)
(*   pipeline/run.py    chunk_text                                         *)
(*   rag/index.py       build_faiss_index                                  *)
(*   rag/retriever.py   DocumentRetriever                                  *)
(* Each component has its own specification (SpecChunk, SpecIndex, ...);   *)
(* the variables of the other components stay at their idle values.        *)
(***************************************************************************)
EXTENDS Integers, Sequences, FiniteSets, TLC

VARIABLES
    \* ---- pipeline/run.py: chunk_text ----
    text,            \* the argument text, a sequence of characters
    chunk_size,      \* the argument chunk_size
    overlap,         \* the argument overlap
    start,           \* local variable start
    chunks,          \* local variable chunks
    cpc,             \* position in chunk_text: "loop" | "returned" | "idle"
    \* ---- rag/index.py: build_faiss_index ----
    documents,       \* the argument documents (the processed corpus)
    bpos,            \* position of the three nested loops: next chunk of the corpus
    all_embeddings,  \* local variable all_embeddings
    chunk_metadata,  \* local variable chunk_metadata
    build_log,       \* the logger.error records of the per-chunk handler
    index,           \* the FAISS index built in memory (its vectors, in order)
    disk_index,      \* the file FAISS_INDEX_PATH: who wrote it and the stored vectors
    disk_metadata,   \* the file ..._metadata.json: who wrote it and the stored records
    bpc,             \* position in build_faiss_index
    \* ---- rag/retriever.py: DocumentRetriever ----
    r_index,         \* self.index: the vectors of the loaded index, by position
    r_metadata,      \* self.metadata: the loaded metadata list
    r_query,         \* the embedding of the last query
    r_top_k,         \* the last top_k
    r_indices,       \* indices[0] of the last index.search
    r_result,        \* the last retrieve: the list returned, or a fault (IndexError)
    rpc,             \* "idle" | "loaded" | "retrieved"
    \* ---- scraper/crawl.py ----
    hash_seed,       \* the interpreter's str-hash key of this process run
    visited_urls,    \* module global visited_urls
    found_documents, \* module global found_documents
    seed_url,        \* crawl_website: argument seed_url
    max_pages,       \* crawl_website: argument max_pages
    queue,           \* crawl_website: local queue
    pages_crawled,   \* crawl_website: local pages_crawled
    current_url,     \* crawl_website: local current_url
    html_content,    \* crawl_website: local html_content (last fetch result)
    page_requests,   \* http_client.get calls issued by get_page_content in this crawl
    page_fetched,    \* of those, the ones that returned a 2xx response
    clock,           \* the time now, in seconds since the process started
    request_log,     \* the page requests of this process: issued, completed, ok
    fs,              \* the file system: directories and files that exist
    download_calls,  \* the download_file calls made so far, in order
    crawled_file,    \* data/raw/crawled_documents.json: its state and its records
    crawls,          \* crawl_website calls made in this process run
    runs,            \* process runs started
    crawl_pc,        \* position in crawl_website
    \* ---- scraper/crawl.py: parse_listing_page called on its own ----
    parse_html,      \* the argument html_content
    parse_out,       \* what the call returned, or that it raised
    ppc,             \* "idle" | "called" | "returned"
    \* ---- rag/api.py: POST /query ----
    api_query,       \* the embedding of request.query
    api_retrieval,   \* what retriever.retrieve did: raised, or the chunks returned
    api_response,    \* the HTTP response of the last request: status and body
    apc              \* "idle" | "serving" | "answered"

chunkVars == <<text, chunk_size, overlap, start, chunks, cpc>>
indexVars == <<documents, bpos, all_embeddings, chunk_metadata, build_log,
               index, disk_index, disk_metadata, bpc>>

retrieverVars == <<r_index, r_metadata, r_query, r_top_k, r_indices, r_result, rpc>>

crawlVars == <<hash_seed, visited_urls, found_documents, seed_url, max_pages, queue,
               pages_crawled, current_url, html_content, page_requests, page_fetched,
               clock, request_log,
               fs, download_calls, crawled_file, crawls, runs, crawl_pc>>

parseVars == <<parse_html, parse_out, ppc>>
apiVars == <<api_query, api_retrieval, api_response, apc>>

vars == <<chunkVars, indexVars, retrieverVars, crawlVars, parseVars, apiVars>>

nonChunkVars == <<indexVars, retrieverVars, crawlVars, parseVars, apiVars>>
nonIndexVars == <<chunkVars, retrieverVars, crawlVars, parseVars, apiVars>>
nonRetrieverVars == <<chunkVars, indexVars, crawlVars, parseVars, apiVars>>
nonCrawlVars == <<chunkVars, indexVars, retrieverVars, parseVars, apiVars>>
nonParseVars == <<chunkVars, indexVars, retrieverVars, crawlVars, apiVars>>
nonApiVars == <<chunkVars, indexVars, retrieverVars, crawlVars, parseVars>>

(***************************************************************************)
(* General helpers.                                                        *)
(***************************************************************************)
Min(a, b) == IF a < b THEN a ELSE b
Max(a, b) == IF a > b THEN a ELSE b

\* ceil(a / b) for b > 0 and any integer a (TLA+ \div rounds down).
CeilDiv(a, b) == -((-a) \div b)

\* all sequences over S of length 0..n
SeqsUpTo(S, n) == UNION {[1..k -> S] : k \in 0..n}

RECURSIVE Concat(_)
\* the concatenation of a sequence of sequences
Concat(ss) == IF ss = <<>> THEN <<>> ELSE Head(ss) \o Concat(Tail(ss))

(***************************************************************************)
(* pipeline/run.py: chunk_text(text, chunk_size, overlap)                  *)
(***************************************************************************)
MaxTextLen == 5      \* longest text drawn
MaxChunkSize == 3    \* largest chunk_size drawn (besides the default)
MaxIters == 8        \* cap on appended chunks, reached only when overlap >= chunk_size

DEFAULT_CHUNK_SIZE == 500
DEFAULT_OVERLAP == 50

Chars == {"a", "b"}

\* the (chunk_size, overlap) pairs drawn: every small pair, valid or not, and
\* the defaults of the signature
ChunkConfigs ==
    ((1..MaxChunkSize) \X (0..(MaxChunkSize + 1)))
        \cup {<<DEFAULT_CHUNK_SIZE, DEFAULT_OVERLAP>>}

\* Python index clamping of a slice bound i on a sequence of length n
ClampIndex(i, n) == IF i < 0 THEN Max(i + n, 0) ELSE Min(i, n)

\* Python t[a:b]
PySlice(t, a, b) ==
    LET lo == ClampIndex(a, Len(t))
        hi == ClampIndex(b, Len(t))
    IN  IF lo < hi THEN SubSeq(t, lo + 1, hi) ELSE <<>>

\* Python t[a:]
PySliceFrom(t, a) ==
    LET lo == ClampIndex(a, Len(t))
    IN  IF lo < Len(t) THEN SubSeq(t, lo + 1, Len(t)) ELSE <<>>

\* start += (chunk_size - overlap)
NextStartSkipsOverlap(s, size, ov) == s + size
NextStart(s, size, ov) == s + (size - ov)

\* the condition of the tail branch: start + chunk_size > len(text) and start < len(text)
TailCondAlways(s, size, n) == s < n
TailCond(s, size, n) == s + size > n /\ s < n

\* chunk_text is not running
ChunkIdle ==
    /\ text = <<>> /\ chunk_size = 0 /\ overlap = 0
    /\ start = 0 /\ chunks = <<>> /\ cpc = "idle"

ChunkInit ==
    /\ text \in SeqsUpTo(Chars, MaxTextLen)
    /\ \E cfg \in ChunkConfigs : chunk_size = cfg[1] /\ overlap = cfg[2]
    /\ start = 0
    /\ chunks = <<>>
    /\ cpc = "loop"

\* one iteration of the while loop, with its tail branch and break
ChunkIter ==
    /\ cpc = "loop"
    /\ start < Len(text)
    /\ Len(chunks) < MaxIters
    /\ LET end == start + chunk_size
           c1 == Append(chunks, PySlice(text, start, end))
           s1 == NextStart(start, chunk_size, overlap)
       IN  /\ start' = s1
           /\ IF TailCond(s1, chunk_size, Len(text))
              THEN /\ chunks' = Append(c1, PySliceFrom(text, s1))
                   /\ cpc' = "returned"
              ELSE /\ chunks' = c1
                   /\ cpc' = "loop"
    /\ UNCHANGED <<text, chunk_size, overlap>>
    /\ UNCHANGED nonChunkVars

\* the loop condition fails: return chunks
ChunkReturn ==
    /\ cpc = "loop"
    /\ ~(start < Len(text))
    /\ cpc' = "returned"
    /\ UNCHANGED <<text, chunk_size, overlap, start, chunks>>
    /\ UNCHANGED nonChunkVars

ChunkNext == ChunkIter \/ ChunkReturn

(***************************************************************************)
(* Claims about chunk_text.                                                *)
(***************************************************************************)
ValidChunkConfig == 0 <= overlap /\ overlap < chunk_size
ChunkStep == chunk_size - overlap

\* the first k characters of chunk c
Prefix(c, k) == SubSeq(c, 1, Min(k, Len(c)))

\* the non-overlapping prefixes of all chunks but the last, then the last chunk
Rejoin(cs, step) ==
    IF cs = <<>> THEN <<>>
    ELSE Concat([j \in 1..(Len(cs) - 1) |-> Prefix(cs[j], step)]) \o cs[Len(cs)]

\* the window starts chunk_text emits a chunk for: 0, step, then every further
\* multiple of step inside the text whose preceding full window fits in the text
EmittedStarts(n, size, step) ==
    {j \in 0..n : j * step < n /\ (j <= 1 \/ (j - 1) * step + size <= n)}

\* C7: for valid (size, overlap), the non-overlapping prefixes of the chunks
\* followed by the last chunk rebuild the text, and chunk j is the window of
\* the text that starts at offset j * (size - overlap).
C7_Rejoin ==
    (cpc = "returned" /\ ValidChunkConfig) =>
        /\ Rejoin(chunks, ChunkStep) = text
        /\ \A j \in 1..Len(chunks) :
              chunks[j] = PySlice(text, (j - 1) * ChunkStep,
                                  (j - 1) * ChunkStep + chunk_size)

C7_Witness ==
    /\ cpc = "returned" /\ ValidChunkConfig /\ overlap > 0
    /\ Len(chunks) >= 3
    /\ Len(chunks[Len(chunks)]) < chunk_size
    /\ \E i, j \in 1..Len(text) : text[i] # text[j]

\* C8 as stated: a non-empty text yields exactly
\* ceil((len - overlap) / (size - overlap)) chunks.
C8_CountAsStated ==
    (cpc = "returned" /\ ValidChunkConfig /\ text # <<>>) =>
        Len(chunks) = CeilDiv(Len(text) - overlap, ChunkStep)

\* C8 amended: chunk_text returns one chunk per emitted window start (0, step,
\* and each later multiple of step inside the text whose preceding window fits);
\* that is never fewer than ceil((len - overlap) / step) and is equal to it when
\* overlap = 0; empty text yields no chunk, and "abc" under the default
\* (500, 50) yields the single chunk "abc".
C8_Count ==
    (cpc = "returned" /\ ValidChunkConfig) =>
        /\ Len(chunks) = Cardinality(EmittedStarts(Len(text), chunk_size, ChunkStep))
        /\ Len(chunks) >= CeilDiv(Len(text) - overlap, ChunkStep)
        /\ (overlap = 0 /\ text # <<>>) =>
              Len(chunks) = CeilDiv(Len(text) - overlap, ChunkStep)
        /\ (text = <<>>) => chunks = <<>>
        /\ (text # <<>> /\ chunk_size = DEFAULT_CHUNK_SIZE /\ overlap = DEFAULT_OVERLAP)
              => chunks = <<text>>

C8_Witness ==
    /\ cpc = "returned" /\ ValidChunkConfig /\ overlap > 0
    /\ Len(text) > chunk_size
    /\ Len(chunks) >= 3
    /\ Len(chunks[Len(chunks)]) < chunk_size
    /\ Len(chunks) > CeilDiv(Len(text) - overlap, ChunkStep)

\* C9 as stated: with overlap >= chunk_size the call is rejected: it produces
\* no chunk and does not return a chunk list.
C9_Rejected ==
    (overlap >= chunk_size) => (chunks = <<>> /\ cpc # "returned")

(***************************************************************************)
(* rag/index.py: build_faiss_index(documents)                              *)
(*                                                                         *)
(* A document is a dict; keys is the set of keys it has among "id" and     *)
(* "title", files the value of "processed_files": one chunk list per file. *)
(* The text of a chunk is written <<d, f, i>>: the text of chunk i of file *)
(* f of document d, so that every chunk of a corpus is told apart.         *)
(***************************************************************************)
MaxCorpusChunks == 3     \* most chunks in a corpus

DocKeySets == {{"id", "title"}, {"id"}, {"title"}}
FileCounts == 0..2       \* files per document
DocCounts == 0..2        \* documents per corpus

RECURSIVE SumSeq(_)
SumSeq(ns) == IF ns = <<>> THEN 0 ELSE Head(ns) + SumSeq(Tail(ns))

\* a document: its keys and the number of chunks of each of its files
DocShapes ==
    {[keys |-> k, files |-> fl] :
        k \in DocKeySets,
        fl \in UNION {[1..n -> 0..MaxCorpusChunks] : n \in FileCounts}}

Corpora ==
    {c \in UNION {[1..n -> DocShapes] : n \in DocCounts} :
        SumSeq([d \in 1..Len(c) |-> SumSeq(c[d].files)]) <= MaxCorpusChunks}

DocId(d) == <<"doc", d>>
DocTitle(d) == <<"title", d>>
ChunkText(d, f, i) == <<d, f, i>>

\* the chunks of a file, as (document, file, enumerate index) positions
FileChunks(c, d, f) == [i \in 1..c[d].files[f] |-> [d |-> d, f |-> f, i |-> i - 1]]
DocChunks(c, d) == Concat([f \in 1..Len(c[d].files) |-> FileChunks(c, d, f)])
\* the order in which the three nested for loops visit the chunks
FlatChunks(c) == Concat([d \in 1..Len(c) |-> DocChunks(c, d)])

\* model.encode(chunk), when it does not raise
Embed(chunk) == <<"vec", chunk>>

\* the dict appended to chunk_metadata
MetadataRecord(d, chunk, i) ==
    [document_id |-> DocId(d), document_title |-> DocTitle(d),
     chunk_text |-> chunk, chunk_index |-> i]

\* the body of the try block for one chunk: what is appended, and which step
\* raised ("none", "encode": model.encode, "metadata": doc["id"] / doc["title"])
TryChunkMetadataFirst(embs, meta, keys, d, chunk, i, encode_ok) ==
    IF ~({"id", "title"} \subseteq keys)
    THEN [embs |-> embs, meta |-> meta, raised |-> "metadata"]
    ELSE IF ~encode_ok
    THEN [embs |-> embs, meta |-> Append(meta, MetadataRecord(d, chunk, i)),
          raised |-> "encode"]
    ELSE [embs |-> Append(embs, Embed(chunk)),
          meta |-> Append(meta, MetadataRecord(d, chunk, i)), raised |-> "none"]
TryChunk(embs, meta, keys, d, chunk, i, encode_ok) ==
    IF ~encode_ok
    THEN [embs |-> embs, meta |-> meta, raised |-> "encode"]
    ELSE IF {"id", "title"} \subseteq keys
    THEN [embs |-> Append(embs, Embed(chunk)),
          meta |-> Append(meta, MetadataRecord(d, chunk, i)), raised |-> "none"]
    ELSE [embs |-> Append(embs, Embed(chunk)), meta |-> meta, raised |-> "metadata"]

\* an artifact pair left by an earlier build
\* a file of data/rag: the build that wrote it ("none": the file does not
\* exist) and what it holds
NoFile == [build |-> "none", content |-> <<>>]
FileOf(b, c) == [build |-> b, content |-> c]
\* the artifact pair an earlier build left behind
OldIndex == FileOf("earlier", <<Embed(<<0, 1, 0>>)>>)
OldMetadata == FileOf("earlier", <<MetadataRecord(0, <<0, 1, 0>>, 0)>>)

\* the test of line 56: not all_embeddings
NoEmbeddingsNever(embs) == FALSE
NoEmbeddings(embs) == embs = <<>>

\* build_faiss_index is not running
IndexIdle ==
    /\ documents = <<>> /\ bpos = 1
    /\ all_embeddings = <<>> /\ chunk_metadata = <<>> /\ build_log = <<>>
    /\ index = <<>> /\ disk_index = NoFile /\ disk_metadata = NoFile
    /\ bpc = "idle"

IndexInit ==
    /\ documents \in Corpora
    /\ bpos = 1
    /\ all_embeddings = <<>>
    /\ chunk_metadata = <<>>
    /\ build_log = <<>>
    /\ index = <<>>
    /\ \/ disk_index = NoFile /\ disk_metadata = NoFile
       \/ disk_index = OldIndex /\ disk_metadata = OldMetadata
    /\ bpc = "loading"

\* lines 26-34: SentenceTransformer(model_name) loads the model, or raises:
\* the failure is logged and the function returns before any chunk is visited
LoadModel ==
    /\ bpc = "loading"
    /\ \E load_ok \in BOOLEAN :
        bpc' = IF load_ok THEN "embedding" ELSE "load_failed"
    /\ UNCHANGED <<documents, bpos, all_embeddings, chunk_metadata, build_log,
                   index, disk_index, disk_metadata>>
    /\ UNCHANGED nonIndexVars

\* one iteration of the innermost for loop (lines 39-54): the try block and
\* its handler, whose message reads doc['id']
EmbedChunk ==
    /\ bpc = "embedding"
    /\ bpos <= Len(FlatChunks(documents))
    /\ \E encode_ok \in BOOLEAN :
        LET at == FlatChunks(documents)[bpos]
            keys == documents[at.d].keys
            r == TryChunk(all_embeddings, chunk_metadata, keys, at.d,
                          ChunkText(at.d, at.f, at.i), at.i, encode_ok)
        IN  /\ all_embeddings' = r.embs
            /\ chunk_metadata' = r.meta
            /\ IF r.raised = "none"
               THEN /\ bpos' = bpos + 1
                    /\ UNCHANGED <<build_log, bpc>>
               ELSE IF "id" \in keys
               THEN /\ build_log' = Append(build_log, [pos |-> bpos, step |-> r.raised])
                    /\ bpos' = bpos + 1
                    /\ UNCHANGED bpc
               ELSE \* the handler's own doc['id'] raises KeyError out of the function
                    /\ bpc' = "crashed"
                    /\ UNCHANGED <<build_log, bpos>>
    /\ UNCHANGED <<documents, index, disk_index, disk_metadata>>
    /\ UNCHANGED nonIndexVars

\* lines 56-66: abort on no embedding, else build the flat index
BuildIndex ==
    /\ bpc = "embedding"
    /\ bpos > Len(FlatChunks(documents))
    /\ IF NoEmbeddings(all_embeddings)
       THEN bpc' = "aborted" /\ UNCHANGED index
       ELSE bpc' = "saving" /\ index' = all_embeddings
    /\ UNCHANGED <<documents, bpos, all_embeddings, chunk_metadata, build_log,
                   disk_index, disk_metadata>>
    /\ UNCHANGED nonIndexVars

\* how the save block can go: both files written; makedirs or the opening of
\* the index file raises; write_index raises after it truncated the file; the
\* opening of the metadata file raises; json.dump raises after the open
\* truncated the file
SaveOutcomes ==
    {"ok", "index_write_fails", "index_write_breaks", "metadata_write_fails",
     "metadata_dump_breaks"}

\* lines 68-80: write the index file, then the metadata file; either write may
\* raise, which is logged
SaveIndex ==
    /\ bpc = "saving"
    /\ \E outcome \in SaveOutcomes :
        /\ disk_index' = CASE outcome = "index_write_fails" -> disk_index
                            [] outcome = "index_write_breaks" -> FileOf("this, cut short", <<>>)
                            [] OTHER -> FileOf("this", index)
        /\ disk_metadata' = CASE outcome = "ok" -> FileOf("this", chunk_metadata)
                               [] outcome = "metadata_dump_breaks" ->
                                     FileOf("this, cut short", <<>>)
                               [] OTHER -> disk_metadata
    /\ bpc' = "done"
    /\ UNCHANGED <<documents, bpos, all_embeddings, chunk_metadata, build_log, index>>
    /\ UNCHANGED nonIndexVars

IndexNext == LoadModel \/ EmbedChunk \/ BuildIndex \/ SaveIndex

(***************************************************************************)
(* Claims about build_faiss_index.                                         *)
(***************************************************************************)
LoopEnded == bpc \in {"aborted", "saving", "done"}

\* the corpus positions whose chunk the handler skipped
SkippedPositions == {build_log[k].pos : k \in 1..Len(build_log)}

\* the metadata records of the chunks at positions from..n of the flat corpus
\* that were not skipped, in corpus order
RECURSIVE SurvivingRecords(_, _, _)
SurvivingRecords(flat, skipped, from) ==
    IF from > Len(flat) THEN <<>>
    ELSE LET at == flat[from]
             rest == SurvivingRecords(flat, skipped, from + 1)
         IN  IF from \in skipped THEN rest
             ELSE <<MetadataRecord(at.d, ChunkText(at.d, at.f, at.i), at.i)>> \o rest

OnlyEncodeFailures == \A k \in 1..Len(build_log) : build_log[k].step = "encode"

\* C1: when the only failures are failures of the embedding call, the build
\* loop ends with as many vectors as metadata records, n minus the number of
\* failed chunks; record i describes the chunk embedded as vector i, and the
\* surviving chunks are kept in corpus order.
C1_Aligned ==
    (LoopEnded /\ OnlyEncodeFailures) =>
        /\ Len(all_embeddings) = Len(chunk_metadata)
        /\ Len(chunk_metadata) = Len(FlatChunks(documents)) - Len(build_log)
        /\ \A i \in 1..Len(chunk_metadata) :
              i <= Len(all_embeddings)
                 /\ all_embeddings[i] = Embed(chunk_metadata[i].chunk_text)
        /\ chunk_metadata = SurvivingRecords(FlatChunks(documents), SkippedPositions, 1)

C1_Witness ==
    /\ LoopEnded /\ OnlyEncodeFailures
    /\ Len(FlatChunks(documents)) >= 3
    /\ Len(build_log) = 1
    /\ build_log[1].pos = 2
    /\ Len(all_embeddings) = Len(FlatChunks(documents)) - 1

\* C2 as stated: whatever step of the try block raised, the skipped chunk is in
\* neither sequence: the two sequences have the same length after every chunk.
C2_NeverAhead ==
    (bpc # "idle") => Len(all_embeddings) = Len(chunk_metadata)

\* the build has ended: by the return of line 31 (the model did not load), by
\* the abort of line 58, by an exception leaving the function, or after the
\* save step
BuildEnded == bpc \in {"load_failed", "aborted", "crashed", "done"}

\* the artifact pair is as it was before this build started
PairUntouched ==
    \/ disk_index = NoFile /\ disk_metadata = NoFile
    \/ disk_index = OldIndex /\ disk_metadata = OldMetadata

\* C11: a build in which no chunk embedded (every embedding call failed, or
\* the corpus has no chunk, or the model did not load) never reaches the save
\* step: it ends at the abort of line 58 (or earlier, by the return of line
\* 31 or by the exception of the handler's own message),
\* and the index file and the metadata file are as they were before.
C11_AbortWritesNothing ==
    /\ (BuildEnded /\ all_embeddings = <<>>) =>
          /\ bpc \in {"load_failed", "aborted", "crashed"}
          /\ index = <<>>
          /\ PairUntouched
    /\ (bpc = "embedding" /\ bpos > Len(FlatChunks(documents))
           /\ all_embeddings = <<>>) => (ENABLED BuildIndex /\ ~ENABLED SaveIndex)
    /\ (bpc \in {"loading", "load_failed", "embedding", "aborted", "crashed"})
          => PairUntouched
    /\ (bpc = "saving") => all_embeddings # <<>>

C11_Witness ==
    /\ bpc = "aborted"
    /\ Len(FlatChunks(documents)) = 2
    /\ Len(build_log) = 2 /\ OnlyEncodeFailures
    /\ all_embeddings = <<>>
    /\ disk_index = OldIndex /\ disk_metadata = OldMetadata

\* C19 as stated: once a build has ended, the index file and the metadata
\* file were written by the same build (or neither exists): a reader never
\* finds an index next to the metadata of another build, or next to none.
C19_PairedArtifacts ==
    BuildEnded => disk_index.build = disk_metadata.build

(***************************************************************************)
(* rag/retriever.py: DocumentRetriever                                     *)
(*                                                                         *)
(* An embedding is a point of Points and the L2 distance of two points the *)
(* square of their difference.  The loaded index and the loaded metadata   *)
(* are two files read independently: their lengths need not agree.         *)
(***************************************************************************)
MaxIndexSize == 3    \* most vectors in a loaded index
MaxTopK == 4         \* largest top_k asked for

Points == 0..2

L2(v, q) == (v - q) * (v - q)

\* position a is ranked before position b (0-based): nearer first, ties in the
\* index's native order
RankedBefore(idx, q, a, b) ==
    \/ L2(idx[a + 1], q) < L2(idx[b + 1], q)
    \/ L2(idx[a + 1], q) = L2(idx[b + 1], q) /\ a < b

RECURSIVE Ranked(_, _, _)
\* the positions of the set left, nearest first
Ranked(idx, q, left) ==
    IF left = {} THEN <<>>
    ELSE LET best == CHOOSE a \in left :
                        \A b \in left \ {a} : RankedBefore(idx, q, a, b)
         IN  <<best>> \o Ranked(idx, q, left \ {best})

\* index.search(query, top_k): top_k labels, nearest first, -1 where the index
\* has no further vector
Search(idx, q, k) ==
    LET ranked == Ranked(idx, q, 0..(Len(idx) - 1))
    IN  [j \in 1..k |-> IF j <= Len(ranked) THEN ranked[j] ELSE -1]

\* the guard of line 66: i >= 0 and i < len(self.metadata)
InRangeNoLowerBound(i, n) == i < n
InRange(i, n) == i >= 0 /\ i < n

\* Python meta[i]: negative i counts from the end, IndexError out of range
PyIndex(meta, i) ==
    IF i >= Len(meta) \/ i < -Len(meta) THEN [fault |-> TRUE, value |-> <<>>]
    ELSE IF i < 0 THEN [fault |-> FALSE, value |-> <<meta[Len(meta) + i + 1]>>]
    ELSE [fault |-> FALSE, value |-> <<meta[i + 1]>>]

RECURSIVE RetrievedChunks(_, _)
\* the loop of lines 64-68 over the labels ids: the list built, or a fault if
\* a lookup raises IndexError
RetrievedChunks(ids, meta) ==
    IF ids = <<>> THEN [fault |-> FALSE, value |-> <<>>]
    ELSE IF ~InRange(Head(ids), Len(meta)) THEN RetrievedChunks(Tail(ids), meta)
    ELSE LET chunk_data == PyIndex(meta, Head(ids))
             rest == RetrievedChunks(Tail(ids), meta)
         IN  IF chunk_data.fault \/ rest.fault THEN [fault |-> TRUE, value |-> <<>>]
             ELSE [fault |-> FALSE, value |-> chunk_data.value \o rest.value]

\* the entry of a metadata file at 0-based position i
MetadataEntry(i) == [chunk_index |-> i]

RetrieverIdle ==
    /\ r_index = <<>> /\ r_metadata = <<>> /\ r_query = 0 /\ r_top_k = 0
    /\ r_indices = <<>> /\ r_result = [fault |-> FALSE, value |-> <<>>]
    /\ rpc = "idle"

\* __init__ / _load_components: index and metadata are read from their files
RetrieverInit ==
    /\ r_index \in SeqsUpTo(Points, MaxIndexSize)
    /\ \E m \in 0..(MaxIndexSize + 1) : r_metadata = [i \in 1..m |-> MetadataEntry(i - 1)]
    /\ r_query = 0 /\ r_top_k = 0
    /\ r_indices = <<>> /\ r_result = [fault |-> FALSE, value |-> <<>>]
    /\ rpc = "loaded"

\* retrieve(query, top_k) on the loaded retriever
Retrieve ==
    /\ rpc \in {"loaded", "retrieved"}
    /\ \E q \in Points, k \in 1..MaxTopK :
        /\ r_query' = q
        /\ r_top_k' = k
        /\ IF r_metadata = <<>>
           THEN \* not self.metadata: "not properly initialized", return []
                /\ r_indices' = <<>>
                /\ r_result' = [fault |-> FALSE, value |-> <<>>]
           ELSE /\ r_indices' = Search(r_index, q, k)
                /\ r_result' = RetrievedChunks(Search(r_index, q, k), r_metadata)
    /\ rpc' = "retrieved"
    /\ UNCHANGED <<r_index, r_metadata>>
    /\ UNCHANGED nonRetrieverVars

RetrieverNext == Retrieve

(***************************************************************************)
(* Claims about DocumentRetriever.retrieve.                                *)
(***************************************************************************)
\* the labels of ids that lie in [0, n), in order
RECURSIVE KeepInRange(_, _)
KeepInRange(ids, n) ==
    IF ids = <<>> THEN <<>>
    ELSE IF Head(ids) >= 0 /\ Head(ids) < n
         THEN <<Head(ids)>> \o KeepInRange(Tail(ids), n)
         ELSE KeepInRange(Tail(ids), n)

\* the labels of the last search that name a vector are ordered nearest first
NearestFirst ==
    \A a, b \in 1..Len(r_indices) :
        (a < b /\ r_indices[a] >= 0 /\ r_indices[b] >= 0) =>
            L2(r_index[r_indices[a] + 1], r_query) <= L2(r_index[r_indices[b] + 1], r_query)

\* the retriever passed the guard of line 53: index, model and metadata loaded
Loaded == r_metadata # <<>>

\* C10 as stated: on a loaded retriever retrieve never faults, returns at most
\* topK entries, and returns exactly as many entries as the index holds when
\* the index has fewer than topK vectors.
C10_AsStated ==
    (rpc = "retrieved" /\ Loaded) =>
        /\ ~r_result.fault
        /\ Len(r_result.value) <= r_top_k
        /\ (Len(r_index) < r_top_k) => Len(r_result.value) = Len(r_index)

\* C10 amended: retrieve returns the metadata entries at the in-range positions
\* of the search result, in the search's nearest-first order; it never faults,
\* returns at most topK entries, and when the index has fewer than topK vectors
\* it returns as many entries as the index has positions inside the metadata:
\* min(index size, len(metadata)), the index size when the two are aligned.
C10_Retrieve ==
    (rpc = "retrieved" /\ Loaded) =>
        /\ ~r_result.fault
        /\ LET kept == KeepInRange(r_indices, Len(r_metadata))
           IN  /\ Len(r_result.value) = Len(kept)
               /\ \A j \in 1..Len(kept) : r_result.value[j] = MetadataEntry(kept[j])
        /\ NearestFirst
        /\ Len(r_result.value) <= r_top_k
        /\ (Len(r_index) < r_top_k) =>
              Len(r_result.value) = Min(Len(r_index), Len(r_metadata))
        /\ (Len(r_index) < r_top_k /\ Len(r_index) = Len(r_metadata)) =>
              Len(r_result.value) = Len(r_index)

C10_Witness ==
    /\ rpc = "retrieved" /\ Loaded
    /\ Len(r_index) = 3 /\ Len(r_metadata) = 2 /\ r_top_k = 4
    /\ r_indices[1] = 2
    /\ \E j \in 1..Len(r_indices) : r_indices[j] = -1
    /\ Len(r_result.value) = 2

(***************************************************************************)
(* rag/api.py: POST /query                                                 *)
(*                                                                         *)
(* The module builds one DocumentRetriever at import (line 23); each       *)
(* request calls retriever.retrieve(request.query) with the default top_k. *)
(***************************************************************************)
\* the default of the parameter top_k of retrieve
DEFAULT_TOP_K == 5

\* the body returned at line 48
NoInformation ==
    [status |-> "200 OK",
     body |-> "I could not find any relevant information to answer your question."]
\* the HTTPException of line 84
InternalServerError ==
    [status |-> "500 Internal Server Error", body |-> "Internal server error"]
\* the answer of line 80: the content of the model's message, or the default
\* of line 78 when the response carries none
LlmAnswer(has_content) ==
    [status |-> "200 OK",
     body |-> IF has_content THEN "content of the model's message"
              ELSE "An error occurred while getting the response from the LLM."]

NoRetrieval == [raised |-> FALSE, chunks |-> <<>>]

\* answer_query, lines 43-84, given what retrieve and ollama.chat did
AnswerFor(retrieval, llm) ==
    IF retrieval.raised THEN InternalServerError
    ELSE IF retrieval.chunks = <<>> THEN NoInformation
    ELSE CASE llm = "raises" -> InternalServerError
           [] llm = "no_content" -> LlmAnswer(FALSE)
           [] OTHER -> LlmAnswer(TRUE)

ApiIdle ==
    /\ api_query = 0 /\ api_retrieval = NoRetrieval
    /\ api_response = NoInformation /\ apc = "idle"

\* the module is imported: lines 20-28
ApiInit ==
    /\ api_query = 0 /\ api_retrieval = NoRetrieval
    /\ api_response = NoInformation /\ apc = "serving"

\* one POST /query: retrieve raises (model.encode or index.search) or returns
\* its chunks; then the prompt is built and the model is called
AnswerQuery ==
    /\ apc \in {"serving", "answered"}
    /\ \E q \in Points, retrieve_ok \in BOOLEAN, llm \in {"ok", "no_content", "raises"} :
        LET found == IF r_metadata = <<>> THEN [fault |-> FALSE, value |-> <<>>]
                     ELSE RetrievedChunks(Search(r_index, q, DEFAULT_TOP_K), r_metadata)
            retrieval == IF retrieve_ok /\ ~found.fault
                         THEN [raised |-> FALSE, chunks |-> found.value]
                         ELSE [raised |-> TRUE, chunks |-> <<>>]
        IN  /\ api_query' = q
            /\ api_retrieval' = retrieval
            /\ api_response' = AnswerFor(retrieval, llm)
    /\ apc' = "answered"
    /\ UNCHANGED nonApiVars

ApiNext == AnswerQuery

\* C17 as stated: when retrieval returns no entries or raises, the caller gets
\* the "no relevant information" answer, never an error response.
C17_NoInformationAnswer ==
    (apc = "answered" /\ (api_retrieval.raised \/ api_retrieval.chunks = <<>>)) =>
        api_response = NoInformation

(***************************************************************************)
(* scraper/crawl.py                                                        *)
(*                                                                         *)
(* Page URLs are strings.  A file URL is written [dir, name]: the text up  *)
(* to its last "/" and the segment after it, the name split into stem and  *)
(* extension.  The site answers each request with an error, an empty body  *)
(* or a page; a page carries its pager links (resolved by urljoin) and its *)
(* table rows.                                                             *)
(***************************************************************************)
MaxPagesLimit == 2   \* largest max_pages passed to crawl_website
MaxCrawls == 2       \* crawl_website calls per process run
MaxRuns == 2         \* process runs
MaxDownloadCalls == 3   \* direct download_file calls

SEED == "https://mospi.gov.in/press-release"
P1 == "https://mospi.gov.in/press-release?page=1"
P2 == "https://mospi.gov.in/press-release?page=2"
ABOUT == "https://mospi.gov.in/about"
Urls == {SEED, P1, P2, ABOUT}

\* "press-release" in current_url
IsPressRelease(u) == u \in {SEED, P1, P2}

PDF_DIR == "data/raw/pdf"

EmptyName == [stem |-> "", ext |-> ""]
F1 == [dir |-> "https://mospi.gov.in/docs", name |-> [stem |-> "a", ext |-> ".pdf"]]
F2 == [dir |-> "https://mospi.gov.in/files", name |-> [stem |-> "a", ext |-> ".pdf"]]
F3 == [dir |-> "https://mospi.gov.in/docs", name |-> [stem |-> "b", ext |-> ".PDF"]]
F4 == [dir |-> "https://mospi.gov.in/docs", name |-> EmptyName]
FileUrls == {F1, F2, F3, F4}

\* url.split('/')[-1]
FileNameOf(url) == url.name
\* href.lower().endswith('.pdf')
LowerEndsWithPdf(url) == url.name.ext \in {".pdf", ".PDF"}
\* file_url.endswith('.pdf')
EndsWithPdf(url) == url.name.ext = ".pdf"

DocA == "https://mospi.gov.in/doc/a"
DocB == "https://mospi.gov.in/doc/b"
DocC == "https://mospi.gov.in/doc/c"

\* the rows of the listing table each page of the site serves
Row(href, pdfs) == [ncols |-> 4, href |-> href, date_ok |-> TRUE, pdfs |-> pdfs]
RowsOf(u) ==
    CASE u = SEED -> <<Row(DocA, <<F1>>), Row(DocB, <<F2>>)>>
      [] u = P1 -> <<Row(DocA, <<F1>>)>>
      [] u = P2 -> <<Row(DocC, <<F3>>)>>
      [] OTHER -> <<>>

\* the pager of a page: absent, or the list of its link targets
PagerLists ==
    {<<>>, <<P1>>, <<P1, P2>>, <<SEED, P1>>, <<P1, P1, P2>>, <<P1, P2, ABOUT>>}
Pagers ==
    {[present |-> FALSE, links |-> <<>>]}
        \cup {[present |-> TRUE, links |-> l] : l \in PagerLists}

\* what http_client.get(url) followed by raise_for_status can give
\* how much of div.view-content > table > tbody a page has: all of it, or
\* everything above the first missing container
TableShapes == {"ok", "no_container", "no_table", "no_tbody"}
NoContent == [kind |-> "none", table |-> "no_container",
              pager |-> [present |-> FALSE, links |-> <<>>], rows |-> <<>>]
EmptyBody == [kind |-> "empty", table |-> "no_container",
              pager |-> [present |-> FALSE, links |-> <<>>], rows |-> <<>>]
PageBodies(u) ==
    {[kind |-> "page", table |-> t, pager |-> p,
      rows |-> IF t = "ok" THEN RowsOf(u) ELSE <<>>] : t \in TableShapes, p \in Pagers}
Responses(u) == {NoContent, EmptyBody} \cup PageBodies(u)

\* seconds from http_client.get(url) to its response or its exception
FetchSeconds == 1
\* the delay of line 27, at its default
RATE_LIMIT_SECONDS == 1
\* time.sleep(RATE_LIMIT_SECONDS) of line 61, started at time now
NoSleepAfterFetch(now) == now
SleepAfterFetch(now) == now + RATE_LIMIT_SECONDS

\* the truth value of html_content: None and "" are false
Truthy(html) == html.kind = "page"

\* hash(document_url): CPython keys the hash of a str with a per-process
\* random seed (PYTHONHASHSEED); the value depends on the key and the string
HashSeeds == {11, 23}
UrlCode(u) == CASE u = DocA -> 1 [] u = DocB -> 2 [] u = DocC -> 3 [] OTHER -> 0
PyHash(key, u) == (UrlCode(u) * 31 + key * 7) % 97
\* str(n)
PyStr(n) == <<"str", n>>

\* the two continue statements of the row loop: lines 120-121 and 127-128
SkipRowOnBadDate(row) == row.ncols < 3 \/ row.href = "none" \/ ~row.date_ok
SkipRow(row) == row.ncols < 3 \/ row.href = "none"

\* parse_listing_page, lines 118-157, for the rows of one table
RECURSIVE ParseRows(_, _)
ParseRows(rows, key) ==
    IF rows = <<>> THEN <<>>
    ELSE LET row == Head(rows)
             rest == ParseRows(Tail(rows), key)
             links == SelectSeq(row.pdfs, LowerEndsWithPdf)
             doc == [id |-> PyStr(PyHash(key, row.href)),
                     title |-> <<"title of", row.href>>,
                     url |-> row.href,
                     date_published |-> IF row.date_ok THEN "date" ELSE "None",
                     file_links |-> [k \in 1..Len(links) |->
                                       [url |-> links[k], file_type |-> "pdf"]]]
         IN  IF SkipRow(row) THEN rest ELSE <<doc>> \o rest

\* parse_listing_page(html_content, base_url): the documents returned, or the
\* AttributeError of table.find('tbody').find_all on a table without tbody
ParseListingPage(html, key) ==
    CASE html.table \in {"no_container", "no_table"} -> [raised |-> FALSE, docs |-> <<>>]
      [] html.table = "no_tbody" -> [raised |-> TRUE, docs |-> <<>>]
      [] OTHER -> [raised |-> FALSE, docs |-> ParseRows(html.rows, key)]

\* ---- parse_listing_page called on one page ----
MaxRows == 3      \* most rows in the table body of a page

\* a row of the table body: its number of td cells, the target of the link in
\* its title cell ("none": no link there), whether its date cell is in
\* day-month-year form, and its file links
RowKinds ==
    {[ncols |-> n, href |-> h, date_ok |-> d,
      pdfs |-> IF h = DocA THEN <<F1, F3>> ELSE <<>>] :
        n \in {2, 3, 4}, h \in {DocA, DocB, "none"}, d \in BOOLEAN}

\* the pages parse_listing_page is called on
ListingPages ==
    {[kind |-> "page", table |-> t, pager |-> [present |-> FALSE, links |-> <<>>],
      rows |-> r] : t \in {"ok"}, r \in SeqsUpTo(RowKinds, MaxRows)}
      \cup {[kind |-> "page", table |-> t, pager |-> [present |-> FALSE, links |-> <<>>],
              rows |-> <<>>] : t \in TableShapes \ {"ok"}}

NoResult == [raised |-> FALSE, docs |-> <<>>]

ParseIdle == parse_html = NoContent /\ parse_out = NoResult /\ ppc = "idle"

ParseInit ==
    /\ parse_html \in ListingPages
    /\ parse_out = NoResult
    /\ ppc = "called"

\* parse_listing_page(html_content, base_url) runs to its return or its raise
ParsePage ==
    /\ ppc = "called"
    /\ \E key \in HashSeeds : parse_out' = ParseListingPage(parse_html, key)
    /\ ppc' = "returned"
    /\ UNCHANGED parse_html
    /\ UNCHANGED nonParseVars

ParseNext == ParsePage

InSeq(x, q) == \E k \in 1..Len(q) : q[k] = x

\* the condition of line 189
ShouldEnqueueIgnoringQueue(u, visited, q, crawled, budget) ==
    u \notin visited /\ crawled < budget
ShouldEnqueue(u, visited, q, crawled, budget) ==
    u \notin visited /\ ~InSeq(u, q) /\ crawled < budget

RECURSIVE EnqueuePagination(_, _, _, _, _)
\* the loop of lines 183-191 over the resolved pager links
EnqueuePagination(links, visited, q, crawled, budget) ==
    IF links = <<>> THEN q
    ELSE EnqueuePagination(Tail(links), visited,
            IF ShouldEnqueue(Head(links), visited, q, crawled, budget)
            THEN Append(q, Head(links)) ELSE q,
            crawled, budget)

EmptyFs == [dirs |-> {}, files |-> {}]

\* data/raw/crawled_documents.json does not exist
NoCrawledFile == [state |-> "absent", records |-> <<>>]

\* os.path.exists(os.path.join(dir, name)): an empty name gives the directory
PathNeverExists(fsys, dir, name) == FALSE
PathExists(fsys, dir, name) ==
    IF name = EmptyName THEN dir \in fsys.dirs
    ELSE [dir |-> dir, name |-> name] \in fsys.files

NoPath == [ok |-> FALSE, dir |-> "", name |-> EmptyName]
\* how the environment treats one download_file call: everything works; the
\* request or raise_for_status raises; open(file_path, 'wb') raises; f.write
\* raises after the file was created; os.makedirs raises if it is called (the
\* transfer itself would work)
DownloadOutcomes ==
    {"ok", "request_fails", "open_fails", "write_fails", "makedirs_fails"}

\* download_file(url, output_dir) when the transfer behaves as outcome says:
\* the file system after the call, what is returned, and the requests issued
DownloadFile(fsys, url, dir, outcome) ==
    LET fs1 == [fsys EXCEPT !.dirs = @ \cup {dir}]
        name == FileNameOf(url)
        path == [ok |-> TRUE, dir |-> dir, name |-> name]
        written == [fs1 EXCEPT !.files = @ \cup {[dir |-> dir, name |-> name]}]
    IN  IF dir \notin fsys.dirs /\ outcome = "makedirs_fails"
        THEN \* lines 77-78 raise: logged at 98, None returned, nothing created
             [fs |-> fsys, result |-> NoPath, requested |-> 0,
              dir_failed |-> TRUE, found |-> FALSE]
        ELSE IF PathExists(fs1, dir, name)
        THEN [fs |-> fs1, result |-> path, requested |-> 0,
              dir_failed |-> FALSE, found |-> TRUE]
        ELSE CASE outcome \in {"ok", "makedirs_fails"} ->
                     [fs |-> written, result |-> path, requested |-> 1,
                      dir_failed |-> FALSE, found |-> FALSE]
               [] outcome = "write_fails" ->
                     [fs |-> written, result |-> NoPath, requested |-> 1,
                      dir_failed |-> FALSE, found |-> FALSE]
               [] OTHER -> [fs |-> fs1, result |-> NoPath, requested |-> 1,
                            dir_failed |-> FALSE, found |-> FALSE]

\* the record of one download_file call
CallRecord(fsys, url, dir, outcome) ==
    LET r == DownloadFile(fsys, url, dir, outcome)
    IN  [url |-> url, dir |-> dir,
         existed |-> PathExists(fsys, dir, FileNameOf(url)),
         dir_failed |-> r.dir_failed, found |-> r.found,
         requested |-> r.requested, result |-> r.result]

\* no process is running
CrawlIdle ==
    /\ hash_seed = 0 /\ visited_urls = {} /\ found_documents = <<>>
    /\ seed_url = "" /\ max_pages = 0 /\ queue = <<>> /\ pages_crawled = 0
    /\ current_url = "" /\ html_content = NoContent
    /\ page_requests = 0 /\ page_fetched = 0
    /\ clock = 0 /\ request_log = <<>>
    /\ fs = EmptyFs /\ download_calls = <<>> /\ crawled_file = NoCrawledFile
    /\ crawls = 0 /\ runs = 0 /\ crawl_pc = "idle"

\* the module is imported in a fresh process: lines 37-39
CrawlInit ==
    /\ hash_seed \in HashSeeds
    /\ visited_urls = {} /\ found_documents = <<>>
    /\ seed_url = "" /\ max_pages = 0 /\ queue = <<>> /\ pages_crawled = 0
    /\ current_url = "" /\ html_content = NoContent
    /\ page_requests = 0 /\ page_fetched = 0
    /\ clock = 0 /\ request_log = <<>>
    /\ fs = EmptyFs /\ download_calls = <<>> /\ crawled_file = NoCrawledFile
    /\ crawls = 0 /\ runs = 1 /\ crawl_pc = "imported"

\* crawl_website(seed_url, max_pages) is called: lines 164-165
StartCrawl ==
    /\ crawl_pc \in {"imported", "returned"}
    /\ crawls < MaxCrawls
    /\ crawls' = crawls + 1
    /\ seed_url' = SEED
    /\ max_pages' \in 0..MaxPagesLimit
    /\ queue' = <<SEED>>
    /\ pages_crawled' = 0
    /\ current_url' = "" /\ html_content' = NoContent
    /\ page_requests' = 0 /\ page_fetched' = 0
    /\ download_calls' = <<>>
    /\ crawl_pc' = "loop"
    /\ UNCHANGED <<hash_seed, visited_urls, found_documents, clock, request_log,
                   fs, crawled_file, runs>>
    /\ UNCHANGED nonCrawlVars

\* one iteration of the while loop, lines 167-197, with get_page_content
\* (lines 47-69) and parse_listing_page
CrawlStep ==
    /\ crawl_pc = "loop"
    /\ queue # <<>> /\ pages_crawled < max_pages
    /\ LET cur == Head(queue)
           q1 == Tail(queue)
       IN
       /\ current_url' = cur
       /\ \E resp \in (IF cur \in visited_urls THEN {NoContent} ELSE Responses(cur)) :
           LET requested == cur \notin visited_urls
               fetched == requested /\ resp.kind # "none"
               visited1 == IF fetched THEN visited_urls \cup {cur} ELSE visited_urls
               crawled1 == IF Truthy(resp) THEN pages_crawled + 1 ELSE pages_crawled
               listing == Truthy(resp) /\ IsPressRelease(cur)
               parsed == IF listing THEN ParseListingPage(resp, hash_seed)
                         ELSE [raised |-> FALSE, docs |-> <<>>]
           IN  /\ html_content' = resp
               /\ page_requests' = page_requests + (IF requested THEN 1 ELSE 0)
               /\ page_fetched' = page_fetched + (IF fetched THEN 1 ELSE 0)
               /\ clock' = IF ~requested THEN clock
                            ELSE IF fetched THEN SleepAfterFetch(clock + FetchSeconds)
                            ELSE clock + FetchSeconds
               /\ request_log' =
                    IF requested
                    THEN Append(request_log, [url |-> cur, issued |-> clock,
                                              completed |-> clock + FetchSeconds,
                                              ok |-> fetched])
                    ELSE request_log
               /\ visited_urls' = visited1
               /\ pages_crawled' = crawled1
               /\ found_documents' = found_documents \o parsed.docs
               /\ queue' =
                    IF listing /\ ~parsed.raised /\ resp.pager.present
                    THEN EnqueuePagination(resp.pager.links, visited1, q1,
                                           crawled1, max_pages)
                    ELSE q1
               \* an exception of parse_listing_page leaves crawl_website
               /\ crawl_pc' = IF parsed.raised THEN "crashed" ELSE crawl_pc
    /\ UNCHANGED <<hash_seed, seed_url, max_pages, fs, download_calls, crawled_file,
                   crawls, runs>>
    /\ UNCHANGED nonCrawlVars

\* the loop condition of line 167 fails
CrawlLoopExit ==
    /\ crawl_pc = "loop"
    /\ ~(queue # <<>> /\ pages_crawled < max_pages)
    /\ crawl_pc' = "downloading"
    /\ UNCHANGED <<hash_seed, visited_urls, found_documents, seed_url, max_pages, queue,
                   pages_crawled, current_url, html_content, page_requests,
                   page_fetched, clock, request_log, fs, download_calls, crawled_file, crawls, runs>>
    /\ UNCHANGED nonCrawlVars

\* the file URLs of all found documents (lines 203-208)
FilesToDownload ==
    UNION {{found_documents[d].file_links[k].url :
                k \in 1..Len(found_documents[d].file_links)} :
           d \in 1..Len(found_documents)}

\* the orders in which list(set(...)) may give the elements of S
Orders(S) == {o \in [1..Cardinality(S) -> S] : \A x \in S : InSeq(x, o)}

\* the files the loop of lines 211-213 calls download_file for
PdfFiles == {url \in FilesToDownload : EndsWithPdf(url)}

RECURSIVE DownloadAll(_, _, _, _)
\* the download_file calls of lines 211-213, in the order given: the file
\* system and the calls made
DownloadAll(order, outcomes, fsys, calls) ==
    IF order = <<>> THEN [fs |-> fsys, calls |-> calls]
    ELSE LET url == Head(order)
         IN  DownloadAll(Tail(order), outcomes,
                 DownloadFile(fsys, url, PDF_DIR, outcomes[url]).fs,
                 Append(calls, CallRecord(fsys, url, PDF_DIR, outcomes[url])))

\* lines 201-215: download every unique file of the found documents whose URL
\* ends in ".pdf"; the other unique files are passed over
DownloadFiles ==
    /\ crawl_pc = "downloading"
    /\ \E order \in Orders(PdfFiles), outcomes \in [PdfFiles -> DownloadOutcomes] :
        LET r == DownloadAll(order, outcomes, fs, download_calls)
        IN  fs' = r.fs /\ download_calls' = r.calls
    /\ crawl_pc' = "saving"
    /\ UNCHANGED <<hash_seed, visited_urls, found_documents, seed_url, max_pages, queue,
                   pages_crawled, current_url, html_content, page_requests,
                   page_fetched, clock, request_log, crawled_file, crawls, runs>>
    /\ UNCHANGED nonCrawlVars

\* how the save of lines 219-226 can go: the file is written; open raises and
\* the file is as before; json.dump raises after open(..., 'w') emptied the
\* file, which is left cut short with no readable record
SaveDocumentsOutcomes == {"ok", "open_fails", "write_breaks"}

\* lines 217-228: write crawled_documents.json if any document was found; a
\* failing write is logged
SaveDocuments ==
    /\ crawl_pc = "saving"
    /\ \E outcome \in SaveDocumentsOutcomes :
        crawled_file' =
            IF found_documents = <<>> THEN crawled_file
            ELSE CASE outcome = "ok" -> [state |-> "written", records |-> found_documents]
                   [] outcome = "write_breaks" -> [state |-> "cut short", records |-> <<>>]
                   [] OTHER -> crawled_file
    /\ crawl_pc' = "returned"
    /\ UNCHANGED <<hash_seed, visited_urls, found_documents, seed_url, max_pages, queue,
                   pages_crawled, current_url, html_content, page_requests,
                   page_fetched, clock, request_log, fs, download_calls, crawls, runs>>
    /\ UNCHANGED nonCrawlVars

\* the process ends and scraper.crawl is run again in a new interpreter: the
\* globals start empty, the hash key is drawn anew, the files stay
RestartProcess ==
    /\ crawl_pc \in {"returned", "crashed"}
    /\ runs < MaxRuns
    /\ runs' = runs + 1
    /\ hash_seed' \in HashSeeds
    /\ visited_urls' = {} /\ found_documents' = <<>>
    /\ seed_url' = "" /\ max_pages' = 0 /\ queue' = <<>> /\ pages_crawled' = 0
    /\ current_url' = "" /\ html_content' = NoContent
    /\ page_requests' = 0 /\ page_fetched' = 0
    /\ clock' = 0 /\ request_log' = <<>>
    /\ download_calls' = <<>>
    /\ crawls' = 0
    /\ crawl_pc' = "imported"
    /\ UNCHANGED <<fs, crawled_file>>
    /\ UNCHANGED nonCrawlVars

\* lines 230-236: the script calls crawl_website once per process run
RunMain == crawls = 0 /\ StartCrawl

CrawlNext ==
    StartCrawl \/ CrawlStep \/ CrawlLoopExit \/ DownloadFiles \/ SaveDocuments

RerunNext ==
    RunMain \/ CrawlStep \/ CrawlLoopExit \/ DownloadFiles \/ SaveDocuments
        \/ RestartProcess

\* download_file called directly, on any file URL
DownloadInit ==
    /\ hash_seed \in HashSeeds
    /\ visited_urls = {} /\ found_documents = <<>>
    /\ seed_url = "" /\ max_pages = 0 /\ queue = <<>> /\ pages_crawled = 0
    /\ current_url = "" /\ html_content = NoContent
    /\ page_requests = 0 /\ page_fetched = 0
    /\ clock = 0 /\ request_log = <<>>
    /\ fs \in {EmptyFs, [dirs |-> {PDF_DIR}, files |-> {}]}
    /\ download_calls = <<>> /\ crawled_file = NoCrawledFile
    /\ crawls = 0 /\ runs = 1 /\ crawl_pc = "imported"

CallDownloadFile ==
    /\ crawl_pc = "imported"
    /\ Len(download_calls) < MaxDownloadCalls
    /\ \E url \in FileUrls, outcome \in DownloadOutcomes :
        /\ fs' = DownloadFile(fs, url, PDF_DIR, outcome).fs
        /\ download_calls' = Append(download_calls, CallRecord(fs, url, PDF_DIR, outcome))
    /\ UNCHANGED <<hash_seed, visited_urls, found_documents, seed_url, max_pages, queue,
                   pages_crawled, current_url, html_content, page_requests,
                   page_fetched, clock, request_log, crawled_file, crawls, runs, crawl_pc>>
    /\ UNCHANGED nonCrawlVars

DownloadNext == CallDownloadFile


(***************************************************************************)
(* Claims about the crawl frontier, the document ids and download_file.    *)
(***************************************************************************)
\* C3 as stated: a crawl performs at most max_pages successful page fetches,
\* pages_crawled never exceeds max_pages, and with max_pages = 1 no more than
\* one page request is issued.
C3_Budget ==
    (crawl_pc \in {"loop", "downloading", "saving", "returned"}) =>
        /\ page_fetched <= max_pages
        /\ pages_crawled <= max_pages
        /\ (max_pages = 1) => page_requests <= 1

NoDuplicateInQueue ==
    \A i, j \in 1..Len(queue) : i # j => queue[i] # queue[j]

\* a visited URL is in the queue only as the seed of a crawl that has just
\* been started (the seed is put there unconditionally)
QueuedUnvisited ==
    \A k \in 1..Len(queue) :
        queue[k] \in visited_urls => (queue = <<seed_url>> /\ current_url = "")

\* what one loop iteration may append behind the rest of the queue
EnqueueRule ==
    (crawl_pc = "loop" /\ crawl_pc' = "loop") =>
        /\ SubSeq(queue', 1, Len(queue) - 1) = Tail(queue)
        /\ \A k \in Len(queue)..Len(queue') :
              /\ queue'[k] \notin visited_urls'
              /\ ~InSeq(queue'[k], Tail(queue))
              /\ pages_crawled' < max_pages

\* C4: a pagination URL is appended only if it is not visited, not in the
\* queue and the budget is not exhausted; so the queue never holds a URL
\* twice and never receives a visited URL.
C4_Frontier ==
    /\ [](NoDuplicateInQueue /\ QueuedUnvisited)
    /\ [][EnqueueRule]_vars

C4_Witness ==
    /\ crawl_pc = "loop"
    /\ current_url = SEED /\ SEED \in visited_urls
    /\ html_content.kind = "page"
    /\ html_content.pager.links = <<P1, P1, P2>>
    /\ queue = <<P1, P2>>

\* C12: page requests are sequential and, after a successful one, spaced: of
\* any two consecutive page requests of a process the later is issued no
\* earlier than the earlier completed, and at least RATE_LIMIT_SECONDS after
\* that if the earlier succeeded.
C12_RateLimited ==
    /\ \A k \in 1..Len(request_log) :
          request_log[k].issued <= request_log[k].completed
    /\ \A k \in 1..(Len(request_log) - 1) :
          /\ request_log[k + 1].issued >= request_log[k].completed
          /\ request_log[k].ok =>
                request_log[k + 1].issued >= request_log[k].completed + RATE_LIMIT_SECONDS
    /\ Len(request_log) > 0 =>
          clock >= request_log[Len(request_log)].completed
                     + (IF request_log[Len(request_log)].ok THEN RATE_LIMIT_SECONDS ELSE 0)

C12_Witness ==
    /\ Len(request_log) >= 3
    /\ request_log[1].ok /\ ~request_log[2].ok /\ request_log[3].ok
    /\ request_log[2].issued = request_log[1].completed + RATE_LIMIT_SECONDS
    /\ request_log[3].issued = request_log[2].completed

\* C15 as stated: a listing page that lacks the view-content div, the table
\* or the table body yields no document and never aborts crawl_website: the
\* crawl goes on with the queue.
C15_MalformedPageTolerated ==
    (Truthy(html_content) /\ IsPressRelease(current_url) /\ html_content.table # "ok") =>
        crawl_pc # "crashed"

\* C13 as stated: once crawl_website has entered its loop, the loop ends at
\* its condition, with the queue empty or the budget spent.
C13_LoopTerminates ==
    (crawl_pc = "loop") ~>
        (crawl_pc = "downloading" /\ (queue = <<>> \/ pages_crawled = max_pages))

\* the loop never runs forever: it ends at its condition or by an exception
LoopEnds == (crawl_pc = "loop") ~> (crawl_pc \in {"downloading", "crashed"})

\* the download_file calls this crawl made for the file URL url
AttemptsFor(url) == {k \in 1..Len(download_calls) : download_calls[k].url = url}

\* C14 as stated: once the download phase is over, every file URL recorded on
\* a found document has had exactly one download attempt, whatever the other
\* attempts returned, and the run goes on to write its output.
C14_EachFileAttemptedOnce ==
    (crawl_pc \in {"saving", "returned"}) =>
        /\ \A url \in FilesToDownload : Cardinality(AttemptsFor(url)) = 1
        /\ Len(download_calls) = Cardinality(FilesToDownload)

\* the rows of rows with at least 3 columns, in row order
RowsWithThreeColumns(rows) == SelectSeq(rows, LAMBDA r : r.ncols >= 3)

EveryRowHasTitleLink(rows) == \A k \in 1..Len(rows) : rows[k].href # "none"

\* C16: for a table body whose rows all have a title link, the parser returns
\* one Document per row with at least 3 columns, in row order, and none for
\* the other rows; a row with an unparsable date is emitted with
\* date_published None.
C16_OneDocumentPerRow ==
    (ppc = "returned" /\ parse_html.table = "ok"
        /\ EveryRowHasTitleLink(parse_html.rows)) =>
        LET kept == RowsWithThreeColumns(parse_html.rows)
        IN  /\ ~parse_out.raised
            /\ Len(parse_out.docs) = Len(kept)
            /\ \A k \in 1..Len(kept) :
                  /\ parse_out.docs[k].url = kept[k].href
                  /\ parse_out.docs[k].date_published =
                        (IF kept[k].date_ok THEN "date" ELSE "None")

C16_Witness ==
    /\ ppc = "returned"
    /\ parse_html.table = "ok"
    /\ Len(parse_html.rows) = 3
    /\ parse_html.rows[1].ncols = 3 /\ parse_html.rows[1].href = DocA
    /\ parse_html.rows[2].ncols = 2 /\ parse_html.rows[2].href = DocB
    /\ parse_html.rows[3].ncols = 4 /\ parse_html.rows[3].href = DocB
    /\ ~parse_html.rows[3].date_ok
    /\ Len(parse_out.docs) = 2
    /\ parse_out.docs[2].url = DocB /\ parse_out.docs[2].date_published = "None"

\* a crawl_website call has just been entered (lines 164-165 done, nothing popped)
AtCrawlStart == crawl_pc = "loop" /\ current_url = "" /\ page_requests = 0

\* C18 as stated: every crawl_website call starts with an empty visited set,
\* no documents and only the seed in the queue; the visited set changes only
\* in the fetch step of the loop.
C18_FreshCrawlState ==
    /\ [](AtCrawlStart =>
            (visited_urls = {} /\ found_documents = <<>> /\ queue = <<seed_url>>))
    /\ [][visited_urls' # visited_urls => (crawl_pc = "loop" /\ queue # <<>>
            /\ visited_urls' = visited_urls \cup {Head(queue)})]_vars

\* C5 as stated: a document URL gets the same id in every process run: the
\* ids of the documents found now agree with the ids in the output file of
\* an earlier run.
C5_StableIds ==
    \A d \in 1..Len(found_documents), r \in 1..Len(crawled_file.records) :
        found_documents[d].url = crawled_file.records[r].url
            => found_documents[d].id = crawled_file.records[r].id

\* two consecutive download_file calls for the same URL, the first of which
\* started without the destination file
ConsecutivePairs ==
    {i \in 1..(Len(download_calls) - 1) :
        /\ download_calls[i].url = download_calls[i + 1].url
        /\ download_calls[i].dir = download_calls[i + 1].dir
        /\ ~download_calls[i].existed}

CachedPath(call) == [ok |-> TRUE, dir |-> call.dir, name |-> FileNameOf(call.url)]

\* C6 as stated: such a pair performs exactly one request in total, the
\* second call issuing none and returning the cached path.
C6_OneRequest ==
    \A i \in ConsecutivePairs :
        /\ download_calls[i].requested + download_calls[i + 1].requested = 1
        /\ download_calls[i + 1].requested = 0
        /\ download_calls[i + 1].result = CachedPath(download_calls[i + 1])

\* C6 amended: if the first call of such a pair downloads the file (its
\* request succeeds and it returns the path), the pair performs exactly one
\* request: the second call finds the file, issues no request and returns the
\* same path.  A second call issues no request exactly when it finds the
\* destination path at its check of line 84 or cannot create the directory
\* (it then returns None); so after a first call that failed before the file
\* was created it issues a request of its own, unless the directory is still
\* missing and cannot be made.
C6_OneRequestAfterSuccess ==
    \A i \in ConsecutivePairs :
        LET first == download_calls[i]
            second == download_calls[i + 1]
        IN  /\ (first.requested = 1 /\ first.result.ok) =>
                 /\ first.requested + second.requested = 1
                 /\ second.requested = 0
                 /\ second.result = CachedPath(second)
                 /\ second.result = first.result
            /\ (second.requested = 0) <=> (second.found \/ second.dir_failed)
            /\ second.existed => second.found
            /\ second.found => second.result = CachedPath(second)
            /\ second.dir_failed => ~second.result.ok

C6_Witness ==
    /\ Len(download_calls) >= 2
    /\ 1 \in ConsecutivePairs
    /\ download_calls[1].url = F1
    /\ download_calls[1].requested = 1 /\ download_calls[1].result.ok
    /\ download_calls[2].requested = 0 /\ download_calls[2].result.ok


(***************************************************************************)
(* Specifications, one per component.                                      *)
(***************************************************************************)
InitChunk == ChunkInit /\ IndexIdle /\ RetrieverIdle /\ CrawlIdle /\ ParseIdle /\ ApiIdle
SpecChunk == InitChunk /\ [][ChunkNext]_vars

InitIndex == IndexInit /\ ChunkIdle /\ RetrieverIdle /\ CrawlIdle /\ ParseIdle /\ ApiIdle
SpecIndex == InitIndex /\ [][IndexNext]_vars

InitRetriever == RetrieverInit /\ ChunkIdle /\ IndexIdle /\ CrawlIdle /\ ParseIdle /\ ApiIdle
SpecRetriever == InitRetriever /\ [][RetrieverNext]_vars

InitCrawl == CrawlInit /\ ChunkIdle /\ IndexIdle /\ RetrieverIdle /\ ParseIdle /\ ApiIdle
\* one process run
SpecCrawl == InitCrawl /\ [][CrawlNext]_vars
\* the interpreter keeps running the loop: every request returns or times out
FairCrawl == SpecCrawl /\ WF_vars(CrawlStep) /\ WF_vars(CrawlLoopExit)
\* several process runs, one after the other
SpecRerun == InitCrawl /\ [][RerunNext]_vars

InitParse == ParseInit /\ ChunkIdle /\ IndexIdle /\ RetrieverIdle /\ CrawlIdle /\ ApiIdle
SpecParse == InitParse /\ [][ParseNext]_vars

InitApi ==
    RetrieverInit /\ ApiInit /\ ChunkIdle /\ IndexIdle /\ CrawlIdle /\ ParseIdle
SpecApi == InitApi /\ [][ApiNext]_vars

InitDownload == DownloadInit /\ ChunkIdle /\ IndexIdle /\ RetrieverIdle /\ ParseIdle /\ ApiIdle
SpecDownload == InitDownload /\ [][DownloadNext]_vars

====
